---- MODULE Spec2Model ----
(***************************************************************************)
(* A model of the timestamping service's storage engine                    *)
(* (src/src/storage.rs): the 512-bit digest type and its conversions, the  *)
(* bucket store HashStore, the sharded dispatcher MultiThreadedHashStore   *)
(* with its worker threads, and the Merkle tree.                           *)
(*                                                                         *)
(* Digests are scaled down: a digest is NumWords words of BytesPerWord     *)
(* bytes of ByteBits bits (8 words of 8 bytes of 8 bits in the source).    *)
(* Every operator is written for arbitrary widths.                         *)
(***************************************************************************)
EXTENDS Integers, Sequences, FiniteSets, TLC

\* ------------------------------------------------------------ bounds
\* Words per digest ([u64; 8] in the source).
NumWords == 2
\* Bytes per word (8 in the source).
BytesPerWord == 2
\* Bits per byte (8 in the source).
ByteBits == 2
\* Operations the callers of the dispatcher start at most, all together.
MaxOps == 3
\* Leaves a snapshot handed to MerkleTree::new holds at most.
MaxLeaves == 5

WordBits == BytesPerWord * ByteBits
ByteBase == 2 ^ ByteBits
WordBase == 2 ^ WordBits
HashBytes == NumWords * BytesPerWord

\* ------------------------------------------------------------ Hash512
\* The value a panic!() is modelled by where a number is expected.
Panic == 0 - 1

\* [0u64; 8]
ZeroHash == [i \in 1..NumWords |-> 0]

\* u64::to_le_bytes: least significant byte first.
to_le_bytes(w) == [j \in 1..BytesPerWord |-> (w \div (ByteBase ^ (j - 1))) % ByteBase]

\* u64::from_le_bytes, on the BytesPerWord bytes of bs that start after byte off.
RECURSIVE from_le_bytes(_, _, _)
from_le_bytes(bs, off, j) ==
    IF j > BytesPerWord THEN 0
    ELSE bs[off + j] * (ByteBase ^ (j - 1)) + from_le_bytes(bs, off, j + 1)

\* Hash512Ops::to_bytes: the words in order, each as its little-endian bytes.
to_bytes(h) ==
    [k \in 1..HashBytes |->
        to_le_bytes(h[((k - 1) \div BytesPerWord) + 1])[((k - 1) % BytesPerWord) + 1]]

\* Hash512Ops::from_bytes: Err (here <<>>) unless exactly HashBytes bytes.
from_bytes(bytes) ==
    IF Len(bytes) # HashBytes THEN <<>>
    ELSE [i \in 1..NumWords |-> from_le_bytes(bytes, (i - 1) * BytesPerWord, 1)]

\* Sha512 over a message of two digests' bytes. SHA-512 itself is replaced by a
\* small mixing function with the one property of SHA-512 the store relies on:
\* for a fixed second half (the salt) distinct first halves give distinct
\* outputs. Output byte k mixes byte HashBytes+1-k of the first half with the
\* second half.
Sha512(msg) ==
    [k \in 1..HashBytes |->
        (3 * msg[HashBytes + 1 - k] + msg[HashBytes + k]
           + 2 * msg[2 * HashBytes + 1 - k] + k) % ByteBase]

\* fn hash512(a, b): SHA-512 of a's bytes followed by b's bytes.
hash512(a, b) == from_bytes(Sha512(to_bytes(a) \o to_bytes(b)))

\* Hash512Ops::to_index with a wrong shift direction: the low bits of the word.
to_index_low(h, prefix_size, index_size) ==
    IF prefix_size + index_size > WordBits THEN Panic
    ELSE IF index_size = 0 THEN 0
    ELSE (h[1] \div (2 ^ prefix_size)) % (2 ^ index_size)

\* A to_index whose right shift keeps the bits above the slice.
to_index_unmasked(h, prefix_size, index_size) ==
    IF prefix_size + index_size > WordBits THEN Panic
    ELSE IF index_size = 0 THEN 0
    ELSE h[1] \div (2 ^ (WordBits - prefix_size - index_size))

\* Hash512Ops::to_index: index_size bits of the first word, starting prefix_size
\* bits below its most significant bit. The left shift drops the bits it pushes
\* out of the word.
to_index(h, prefix_size, index_size) ==
    IF prefix_size + index_size > WordBits THEN Panic
    ELSE IF index_size = 0 THEN 0
    ELSE ((h[1] * (2 ^ prefix_size)) % WordBase) \div (2 ^ (WordBits - index_size))

\* The order of [u64; 8]: lexicographic over the words.
HashLess(a, b) ==
    \E i \in 1..NumWords : a[i] < b[i] /\ \A j \in 1..(i - 1) : a[j] = b[j]

\* Lexicographic order over two byte strings of the same length.
BytesLess(x, y) ==
    \E i \in 1..Len(x) : x[i] < y[i] /\ \A j \in 1..(i - 1) : x[j] = y[j]

\* ------------------------------------------------------------ HashStore
\* HashStore::new: 1 << INDEX_SIZE empty buckets, both counters 0. A bucket is
\* the sequence of the hashes of its linked list, head first.
HashStoreNew(index_size) ==
    [data |-> [b \in 0..((2 ^ index_size) - 1) |-> <<>>],
     num_elements |-> 0,
     buckets_filled |-> 0]

\* The chain with x linked in after its first pos nodes.
Splice(chain, pos, x) ==
    SubSeq(chain, 1, pos) \o <<x>> \o SubSeq(chain, pos + 1, Len(chain))

\* The traversal of add_hash without its equality test.
RECURSIVE TraverseNoDup(_, _, _)
TraverseNoDup(chain, cur, x) ==
    IF cur < Len(chain)
    THEN IF HashLess(x, chain[cur + 1])
         THEN [chain |-> Splice(chain, cur, x), is_new |-> TRUE]
         ELSE TraverseNoDup(chain, cur + 1, x)
    ELSE [chain |-> Append(chain, x), is_new |-> TRUE]

\* The loop of add_hash: current is node cur of the chain.
RECURSIVE Traverse(_, _, _)
Traverse(chain, cur, x) ==
    IF cur < Len(chain)
    THEN IF x = chain[cur + 1]
         THEN [chain |-> chain, is_new |-> FALSE]
         ELSE IF HashLess(x, chain[cur + 1])
              THEN [chain |-> Splice(chain, cur, x), is_new |-> TRUE]
              ELSE Traverse(chain, cur + 1, x)
    ELSE [chain |-> Append(chain, x), is_new |-> TRUE]

\* HashStore::add_hash whose front insert forgets num_elements.
add_hash_lost_count(store, slt, prefix_size, index_size, hash) ==
    LET salted_hash == hash512(hash, slt)
        index == to_index(salted_hash, prefix_size, index_size)
        chain == store.data[index]
    IN  IF chain = <<>>
        THEN [store |-> [data |-> [store.data EXCEPT ![index] = <<salted_hash>>],
                         num_elements |-> store.num_elements + 1,
                         buckets_filled |-> store.buckets_filled + 1],
              ret |-> TRUE]
        ELSE IF salted_hash = chain[1]
        THEN [store |-> store, ret |-> FALSE]
        ELSE IF HashLess(salted_hash, chain[1])
        THEN [store |-> [store EXCEPT !.data[index] = <<salted_hash>> \o chain,
                                      !.buckets_filled = @ + 1],
              ret |-> TRUE]
        ELSE LET t == Traverse(chain, 1, salted_hash)
             IN  [store |-> [store EXCEPT !.data[index] = t.chain,
                                          !.num_elements =
                                              IF t.is_new THEN @ + 1 ELSE @],
                  ret |-> t.is_new]

\* HashStore::add_hash whose traversal has no equality test.
add_hash_no_dup(store, slt, prefix_size, index_size, hash) ==
    LET salted_hash == hash512(hash, slt)
        index == to_index(salted_hash, prefix_size, index_size)
        chain == store.data[index]
    IN  IF chain = <<>>
        THEN [store |-> [data |-> [store.data EXCEPT ![index] = <<salted_hash>>],
                         num_elements |-> store.num_elements + 1,
                         buckets_filled |-> store.buckets_filled + 1],
              ret |-> TRUE]
        ELSE IF HashLess(salted_hash, chain[1])
        THEN [store |-> [store EXCEPT !.data[index] = <<salted_hash>> \o chain,
                                      !.num_elements = @ + 1],
              ret |-> TRUE]
        ELSE LET t == TraverseNoDup(chain, 1, salted_hash)
             IN  [store |-> [store EXCEPT !.data[index] = t.chain,
                                          !.num_elements = @ + 1],
                  ret |-> TRUE]

\* HashStore::add_hash that links every new hash in at the head of its chain.
add_hash_front(store, slt, prefix_size, index_size, hash) ==
    LET salted_hash == hash512(hash, slt)
        index == to_index(salted_hash, prefix_size, index_size)
        chain == store.data[index]
    IN  IF \E k \in 1..Len(chain) : chain[k] = salted_hash
        THEN [store |-> store, ret |-> FALSE]
        ELSE [store |-> [data |-> [store.data EXCEPT ![index] = <<salted_hash>> \o chain],
                         num_elements |-> store.num_elements + 1,
                         buckets_filled |->
                             store.buckets_filled + (IF chain = <<>> THEN 1 ELSE 0)],
              ret |-> TRUE]

\* HashStore::add_hash: the store after the call and the value returned. The
\* hash is salted first; bucket and chain hold salted hashes only.
add_hash(store, slt, prefix_size, index_size, hash) ==
    LET salted_hash == hash512(hash, slt)
        index == to_index(salted_hash, prefix_size, index_size)
        chain == store.data[index]
    IN  IF chain = <<>>
        THEN [store |-> [data |-> [store.data EXCEPT ![index] = <<salted_hash>>],
                         num_elements |-> store.num_elements + 1,
                         buckets_filled |-> store.buckets_filled + 1],
              ret |-> TRUE]
        ELSE IF salted_hash = chain[1]
        THEN [store |-> store, ret |-> FALSE]
        ELSE IF HashLess(salted_hash, chain[1])
        THEN [store |-> [store EXCEPT !.data[index] = <<salted_hash>> \o chain,
                                      !.num_elements = @ + 1],
              ret |-> TRUE]
        ELSE LET t == Traverse(chain, 1, salted_hash)
             IN  [store |-> [store EXCEPT !.data[index] = t.chain,
                                          !.num_elements =
                                              IF t.is_new THEN @ + 1 ELSE @],
                  ret |-> t.is_new]

\* HashStore::len
len(store) == store.num_elements

\* HashStore::occupied_slots
occupied_slots(store) == store.buckets_filled

\* HashStore::contains that stops at the head of the chain.
contains_head_only(store, slt, prefix_size, index_size, hash) ==
    LET salted_hash == hash512(hash, slt)
        index == to_index(salted_hash, prefix_size, index_size)
        chain == store.data[index]
    IN  chain # <<>> /\ chain[1] = salted_hash

\* HashStore::contains: walk the chain of the salted hash's bucket.
contains(store, slt, prefix_size, index_size, hash) ==
    LET salted_hash == hash512(hash, slt)
        index == to_index(salted_hash, prefix_size, index_size)
        chain == store.data[index]
    IN  \E k \in 1..Len(chain) : chain[k] = salted_hash

\* A to_array that walks the buckets from the last one down.
RECURSIVE to_array_down(_, _)
to_array_down(store, b) ==
    IF b < 0 THEN <<>>
    ELSE store.data[b] \o to_array_down(store, b - 1)

to_array_reversed(store, index_size) == to_array_down(store, (2 ^ index_size) - 1)

\* HashStore::to_array: the chains of the buckets in index order, from bucket b.
RECURSIVE to_array_from(_, _, _)
to_array_from(store, b, index_size) ==
    IF b >= 2 ^ index_size THEN <<>>
    ELSE store.data[b] \o to_array_from(store, b + 1, index_size)

to_array(store, index_size) == to_array_from(store, 0, index_size)

\* ------------------------------------------------------------ MultiThreadedHashStore
\* (n as f64).log2().ceil() as usize, for n >= 1.
RECURSIVE CeilLog2From(_, _)
CeilLog2From(n, d) == IF 2 ^ d >= n THEN d ELSE CeilLog2From(n, d + 1)

CeilLog2(n) == CeilLog2From(n, 0)

\* usize::is_power_of_two
RECURSIVE is_power_of_two(_)
is_power_of_two(n) ==
    IF n <= 0 THEN FALSE
    ELSE IF n = 1 THEN TRUE
    ELSE n % 2 = 0 /\ is_power_of_two(n \div 2)

\* A thread_index taken from the low end of the first word.
AddThreadIndexLow(hash, num_threads) == to_index_low(hash, 0, CeilLog2(num_threads))

\* thread_index of MultiThreadedHashStore::add_hash: the leading
\* ceil(log2(threads.len())) bits of the digest as submitted (not salted).
AddThreadIndex(hash, num_threads) == to_index(hash, 0, CeilLog2(num_threads))

\* A thread_index for contains taken from the bits after the leading one.
ContainsThreadIndexShifted(hash, num_threads) ==
    to_index(hash, 1, CeilLog2(num_threads))

\* thread_index of MultiThreadedHashStore::contains: the same expression.
ContainsThreadIndex(hash, num_threads) == to_index(hash, 0, CeilLog2(num_threads))

\* A channel of capacity one that drops what does not fit.
SendUnlessBusy(queue, msg) == IF queue = <<>> THEN <<msg>> ELSE queue

\* Sender::send on a shard's channel: the message joins the end of the queue.
Send(queue, msg) == Append(queue, msg)

\* ------------------------------------------------------------ MerkleTree
\* A pass that hashes the right child before the left one.
BuildLevelSwapped(tree_data, level) ==
    LET level_start == (2 ^ level) - 1
        child_level_start == (2 ^ (level + 1)) - 1
    IN  [idx \in DOMAIN tree_data |->
            IF idx >= level_start /\ idx < level_start + 2 ^ level
            THEN LET i == idx - level_start
                 IN  hash512(tree_data[child_level_start + 2 * i + 1],
                             tree_data[child_level_start + 2 * i])
            ELSE tree_data[idx]]

\* One pass of the inner loop of MerkleTree::new: every parent of the level is
\* the hash of its two children.
BuildLevel(tree_data, level) ==
    LET level_start == (2 ^ level) - 1
        child_level_start == (2 ^ (level + 1)) - 1
    IN  [idx \in DOMAIN tree_data |->
            IF idx >= level_start /\ idx < level_start + 2 ^ level
            THEN LET i == idx - level_start
                 IN  hash512(tree_data[child_level_start + 2 * i],
                             tree_data[child_level_start + 2 * i + 1])
            ELSE tree_data[idx]]

\* The outer loop of MerkleTree::new: levels depth-1 down to 0.
RECURSIVE BuildLevels(_, _)
BuildLevels(tree_data, level) ==
    IF level < 0 THEN tree_data
    ELSE BuildLevels(BuildLevel(tree_data, level), level - 1)

\* A MerkleTree::new that copies the leaves to the end of the leaf level, the
\* padding before them.
MerkleTreeNewRightAligned(data, slt) ==
    LET n == Len(data)
    IN  IF n = 0
        THEN [data |-> <<>>, salt |-> slt, depth |-> 0, leaf_count |-> 0]
        ELSE LET depth == CeilLog2(n)
                 tree_size == (2 ^ (depth + 1)) - 1
                 leaf_start == tree_size - n
                 leaves == [idx \in 0..(tree_size - 1) |->
                               IF idx >= leaf_start
                               THEN data[idx - leaf_start + 1]
                               ELSE ZeroHash]
             IN  [data |-> BuildLevels(leaves, depth - 1),
                  salt |-> slt,
                  depth |-> depth,
                  leaf_count |-> n]

\* MerkleTree::new. data is a Vec indexed from 0; the tree's nodes are indexed
\* from 0 too, the root first.
MerkleTreeNew(data, slt) ==
    LET n == Len(data)
    IN  IF n = 0
        THEN [data |-> <<>>, salt |-> slt, depth |-> 0, leaf_count |-> 0]
        ELSE LET depth == CeilLog2(n)
                 tree_size == (2 ^ (depth + 1)) - 1
                 leaf_start == (2 ^ depth) - 1
                 leaves == [idx \in 0..(tree_size - 1) |->
                               IF idx >= leaf_start /\ idx < leaf_start + n
                               THEN data[idx - leaf_start + 1]
                               ELSE ZeroHash]
             IN  [data |-> BuildLevels(leaves, depth - 1),
                  salt |-> slt,
                  depth |-> depth,
                  leaf_count |-> n]

\* MerkleTree::size: data.len()
TreeSize(t) == Cardinality(DOMAIN t.data)

\* A root that is the zero digest for the empty tree.
TreeRootOrZero(t) == IF TreeSize(t) = 0 THEN <<ZeroHash>> ELSE <<t.data[0]>>

\* MerkleTree::root: None (here <<>>) for the empty tree, else Some(data[0]).
TreeRoot(t) == IF TreeSize(t) = 0 THEN <<>> ELSE <<t.data[0]>>

\* The loop of MerkleTree::get that records the right neighbour's pair: it
\* rounds current_idx up to the odd index instead of down to the even one.
RECURSIVE ProofPathOdd(_, _, _, _)
ProofPathOdd(t, level, current_idx, proof) ==
    IF level < 0 THEN proof
    ELSE LET level_start == (2 ^ level) - 1
             left_child_idx == level_start + (2 ^ level)
                                   + (current_idx + 1 - (current_idx % 2))
             right_child_idx == left_child_idx + 1
             pushed == IF left_child_idx < TreeSize(t) /\ right_child_idx < TreeSize(t)
                       THEN Append(proof, <<t.data[left_child_idx], t.data[right_child_idx]>>)
                       ELSE proof
         IN  ProofPathOdd(t, level - 1, current_idx \div 2, pushed)

\* The loop of MerkleTree::get over the levels depth-1 down to 0: the pair of
\* children that holds the current node, then on to the parent.
\* current_idx & !1 is current_idx with its lowest bit cleared.
RECURSIVE ProofPath(_, _, _, _)
ProofPath(t, level, current_idx, proof) ==
    IF level < 0 THEN proof
    ELSE LET level_start == (2 ^ level) - 1
             left_child_idx == level_start + (2 ^ level)
                                   + (current_idx - (current_idx % 2))
             right_child_idx == left_child_idx + 1
             pushed == IF left_child_idx < TreeSize(t) /\ right_child_idx < TreeSize(t)
                       THEN Append(proof, <<t.data[left_child_idx], t.data[right_child_idx]>>)
                       ELSE proof
         IN  ProofPath(t, level - 1, current_idx \div 2, pushed)

\* MerkleTree::get that leaves the (hash, salt) entry out of the proof.
MerkleTreeGetNoLeafEntry(t, hash) ==
    IF t.leaf_count = 0 THEN [some |-> FALSE, path |-> <<>>]
    ELSE LET salted_hash == hash512(hash, t.salt)
             leaf_start == (2 ^ t.depth) - 1
             found == {i \in 0..(t.leaf_count - 1) : t.data[leaf_start + i] = salted_hash}
         IN  IF found = {} THEN [some |-> FALSE, path |-> <<>>]
             ELSE LET hash_idx == CHOOSE i \in found : \A j \in found : i <= j
                  IN  [some |-> TRUE,
                       path |-> ProofPath(t, t.depth - 1, hash_idx, <<>>)]

\* MerkleTree::get that falls back on the first leaf when the search fails.
MerkleTreeGetOrFirst(t, hash) ==
    IF t.leaf_count = 0 THEN [some |-> FALSE, path |-> <<>>]
    ELSE LET salted_hash == hash512(hash, t.salt)
             leaf_start == (2 ^ t.depth) - 1
             found == {i \in 0..(t.leaf_count - 1) : t.data[leaf_start + i] = salted_hash}
             hash_idx == IF found = {} THEN 0 ELSE CHOOSE i \in found : \A j \in found : i <= j
         IN  [some |-> TRUE,
              path |-> ProofPath(t, t.depth - 1, hash_idx, <<<<hash, t.salt>>>>)]

\* MerkleTree::get: None (some = FALSE) or Some(proof). The search takes the
\* first leaf that equals the salted hash; the proof starts with (hash, salt).
MerkleTreeGet(t, hash) ==
    IF t.leaf_count = 0 THEN [some |-> FALSE, path |-> <<>>]
    ELSE LET salted_hash == hash512(hash, t.salt)
             leaf_start == (2 ^ t.depth) - 1
             found == {i \in 0..(t.leaf_count - 1) : t.data[leaf_start + i] = salted_hash}
         IN  IF found = {} THEN [some |-> FALSE, path |-> <<>>]
             ELSE LET hash_idx == CHOOSE i \in found : \A j \in found : i <= j
                  IN  [some |-> TRUE,
                       path |-> ProofPath(t, t.depth - 1, hash_idx, <<<<hash, t.salt>>>>)]

\* ------------------------------------------------------------ inputs
\* A digest with first word a and last word b, zero in between.
Mk(a, b) == [i \in 1..NumWords |-> IF i = 1 THEN a ELSE IF i = NumWords THEN b ELSE 0]

\* The digests the callers submit. Their first words differ in the leading
\* bits (the shard), their last words decide the salted hash's first word.
Inputs == {Mk(0, 2), Mk(0, 5), Mk(4, 2), Mk(8, 9), Mk(8, 0)}

\* The digests of the Merkle tree's callers: one more, so that a tree of
\* MaxLeaves leaves still leaves a digest out.
TreeInputs == Inputs \cup {Mk(12, 7)}

\* The digests submitted through the dispatcher.
MTInputs == {Mk(0, 2), Mk(0, 5), Mk(8, 0)}

\* The threads that call the dispatcher (request handlers, test threads): all
\* of them insert; the first kind also asks contains (as /check does), the
\* second kind also asks len, occupied_slots and to_array (as /stats and
\* /update-tree do).
Checkers == {"c1"}
Aggregators == {"c2"}
Callers == Checkers \cup Aggregators

\* MultiThreadedHashStore::<INDEX_SIZE, PREFIX_SIZE>::new(num_threads, salt)
MTConfigs == {[num_threads |-> 1, index_size |-> 1, prefix_size |-> 0],
              [num_threads |-> 2, index_size |-> 1, prefix_size |-> 0],
              [num_threads |-> 4, index_size |-> 2, prefix_size |-> 0],
              [num_threads |-> 2, index_size |-> 1, prefix_size |-> 1]}

\* The salts a service is built with: all-zero (the tests' SALT) or not.
Salts == {ZeroHash, Mk(5, 9)}

\* <INDEX_SIZE, PREFIX_SIZE> of the stores built.
Params == {[index_size |-> 1, prefix_size |-> 0],
           [index_size |-> 2, prefix_size |-> 0],
           [index_size |-> 1, prefix_size |-> 1]}

\* ------------------------------------------------------------ state
VARIABLES
    salt,          \* the salt of the store or tree under test
    index_size,    \* INDEX_SIZE
    prefix_size,   \* PREFIX_SIZE
    hs,            \* a HashStore used directly (as the unit tests do)
    added,         \* history: the digests add_hash was called with
    log,           \* history: those digests in the order of their first call
    last_op,       \* the last call on hs and what it returned
    snapshot,      \* the Vec<Hash512> a caller builds for MerkleTree::new
    leaves_of,     \* history: the digests whose salted hashes snapshot holds
    tree,          \* the MerkleTree built (while built)
    built,         \* whether MerkleTree::new has run
    proof,         \* the last MerkleTree::get: its argument and result
    threads,       \* threads.len(): the number of shards
    stores,        \* the HashStore each worker owns, by shard
    inbox,         \* the channel of each shard: the commands sent, not yet received
    pc,            \* where each caller is: idle, or inside a blocking call
    loc,           \* each caller's locals inside a call
    reply,         \* each caller's response channel
    result,        \* what each caller's last call returned
    sent,          \* history: how often each caller posted each digest
    ops,           \* the operations started so far
    alive,         \* whether each shard's worker thread still runs
    merkle_tree,   \* TimestampingService::merkle_tree: <<>> (None) or <<tree>>
    last_tree_update, \* TimestampingService::last_tree_update: <<>> or <<time>>
    clock,         \* the wall clock, in seconds
    upd,           \* each caller's position and locals in update_merkle_tree
    seen           \* what each caller's reads of the service returned

cfgVars == <<salt, index_size, prefix_size>>
storeVars == <<hs, added, log, last_op>>
treeVars == <<snapshot, leaves_of, tree, built, proof>>
mtVars == <<threads, stores, inbox, pc, loc, reply, result, sent, ops, alive>>
svcVars == <<merkle_tree, last_tree_update, clock, upd, seen>>
vars == <<cfgVars, storeVars, treeVars, mtVars, svcVars>>

NoProof == [arg |-> ZeroHash, asked |-> FALSE, some |-> FALSE, path |-> <<>>]

\* The variables a specification does not use keep these values.
IdleStore == hs = HashStoreNew(0) /\ added = {} /\ log = <<>>
IdleTree ==
    /\ snapshot = <<>> /\ leaves_of = <<>> /\ built = FALSE
    /\ tree = MerkleTreeNew(<<>>, ZeroHash) /\ proof = NoProof

\* failed is history: a send or a recv of the call met a shard whose worker
\* was gone.
NoOp == [op |-> "none", arg |-> ZeroHash, ok |-> FALSE, n |-> 0, arr |-> <<>>,
         quiet |-> FALSE, failed |-> FALSE]

NoLoc == [hash |-> ZeroHash, cursor |-> 0, total |-> 0, all_hashes |-> <<>>,
          quiet |-> FALSE, failed |-> FALSE]

IdleCallers ==
    /\ pc = [c \in Callers |-> "idle"]
    /\ loc = [c \in Callers |-> NoLoc]
    /\ reply = [c \in Callers |-> <<>>]
    /\ result = [c \in Callers |-> NoOp]
    /\ sent = [c \in Callers |-> [h \in MTInputs |-> 0]]
    /\ ops = 0

IdleMT == threads = 0 /\ stores = <<>> /\ inbox = <<>> /\ alive = <<>> /\ IdleCallers

\* A caller outside update_merkle_tree. The rest is history of the caller's
\* last update: the Vec it built its tree from, the leaf count of the tree its
\* install replaced, and the timestamp its write replaced.
NoUpd == [at |-> "idle", now |-> 0, data |-> <<>>, over |-> 0, before |-> <<>>,
          called |-> FALSE, installed |-> FALSE]

\* A caller that has read nothing from the service yet.
NoSeen == [op |-> "none", arg |-> ZeroHash, root |-> <<>>, size |-> 0, time |-> <<>>,
           some |-> FALSE, path |-> <<>>, had_tree |-> FALSE, during |-> FALSE]

\* TimestampingService::with_threads: no tree, no timestamp.
IdleSvc ==
    /\ merkle_tree = <<>> /\ last_tree_update = <<>> /\ clock = 0
    /\ upd = [c \in Callers |-> NoUpd]
    /\ seen = [c \in Callers |-> NoSeen]

\* ------------------------------------------------------------ HashStore, used directly
InitStore ==
    /\ salt \in Salts
    /\ \E p \in Params : index_size = p.index_size /\ prefix_size = p.prefix_size
    /\ hs = HashStoreNew(index_size)
    /\ added = {}
    /\ log = <<>>
    /\ last_op = NoOp
    /\ IdleTree
    /\ IdleMT
    /\ IdleSvc

StoreAddHash(h) ==
    LET r == add_hash(hs, salt, prefix_size, index_size, h)
    IN  /\ hs' = r.store
        /\ added' = added \cup {h}
        /\ log' = IF h \in added THEN log ELSE Append(log, h)
        /\ last_op' = [NoOp EXCEPT !.op = "add_hash", !.arg = h, !.ok = r.ret]
        /\ UNCHANGED <<cfgVars, svcVars, treeVars, mtVars>>

StoreContains(h) ==
    /\ last_op' = [NoOp EXCEPT !.op = "contains", !.arg = h,
                               !.ok = contains(hs, salt, prefix_size, index_size, h)]
    /\ UNCHANGED <<cfgVars, svcVars, treeVars, mtVars, hs, added, log>>

StoreLen ==
    /\ last_op' = [NoOp EXCEPT !.op = "len", !.n = len(hs)]
    /\ UNCHANGED <<cfgVars, svcVars, treeVars, mtVars, hs, added, log>>

StoreOccupiedSlots ==
    /\ last_op' = [NoOp EXCEPT !.op = "occupied_slots", !.n = occupied_slots(hs)]
    /\ UNCHANGED <<cfgVars, svcVars, treeVars, mtVars, hs, added, log>>

StoreToArray ==
    /\ last_op' = [NoOp EXCEPT !.op = "to_array", !.arr = to_array(hs, index_size)]
    /\ UNCHANGED <<cfgVars, svcVars, treeVars, mtVars, hs, added, log>>

NextStore ==
    \/ \E h \in Inputs : StoreAddHash(h)
    \/ \E h \in Inputs : StoreContains(h)
    \/ StoreLen
    \/ StoreOccupiedSlots
    \/ StoreToArray

SpecStore == InitStore /\ [][NextStore]_vars

\* ------------------------------------------------------------ to_index, called directly
\* The widths to_index is called with: up to one more than a word holds.
Widths == 0..(WordBits + 1)

\* The digests to_index is called on: every first word, with nothing or
\* everything set in the last word.
IndexInputs == {Mk(w, x) : w \in 0..(WordBase - 1), x \in {0, WordBase - 1}}

\* As test_hash512_to_index does: a hash and the two widths, then
\* hash.to_index(prefix_size, index_size).
InitIndex ==
    /\ salt = ZeroHash
    /\ index_size \in Widths /\ prefix_size \in Widths
    /\ IdleStore
    /\ \E h \in IndexInputs : last_op = [NoOp EXCEPT !.arg = h]
    /\ IdleTree
    /\ IdleMT
    /\ IdleSvc

CallToIndex ==
    /\ last_op.op = "none"
    /\ last_op' = [last_op EXCEPT !.op = "to_index",
                                  !.n = to_index(last_op.arg, prefix_size, index_size)]
    /\ UNCHANGED <<cfgVars, hs, added, log, treeVars, mtVars, svcVars>>

NextIndex == CallToIndex

SpecIndex == InitIndex /\ [][NextIndex]_vars

\* ------------------------------------------------------------ thread_index, computed directly
\* The shard counts: the powers of two a word's bits can index.
ShardCounts == {2 ^ k : k \in 0..WordBits}

\* A dispatcher of some shard count and a digest; only the thread_index of
\* add_hash and of contains is computed, nothing is sent.
InitRoute ==
    /\ salt = ZeroHash /\ index_size = 0 /\ prefix_size = 0
    /\ IdleStore
    /\ \E h \in IndexInputs : last_op = [NoOp EXCEPT !.arg = h]
    /\ IdleTree
    /\ threads \in ShardCounts
    /\ stores = <<>> /\ inbox = <<>> /\ alive = <<>> /\ IdleCallers
    /\ IdleSvc

\* Caller c computes the first line of add_hash.
RouteAdd(c) ==
    /\ result[c].op = "none"
    /\ result' = [result EXCEPT ![c] =
                      [NoOp EXCEPT !.op = "add_hash", !.arg = last_op.arg,
                                   !.n = AddThreadIndex(last_op.arg, threads)]]
    /\ UNCHANGED <<cfgVars, storeVars, treeVars, svcVars, threads, stores, inbox, pc, loc,
                   reply, sent, ops, alive>>

\* Caller c computes the first line of contains.
RouteContains(c) ==
    /\ result[c].op = "none"
    /\ result' = [result EXCEPT ![c] =
                      [NoOp EXCEPT !.op = "contains", !.arg = last_op.arg,
                                   !.n = ContainsThreadIndex(last_op.arg, threads)]]
    /\ UNCHANGED <<cfgVars, storeVars, treeVars, svcVars, threads, stores, inbox, pc, loc,
                   reply, sent, ops, alive>>

NextRoute ==
    \/ \E c \in Callers : RouteAdd(c)
    \/ \E c \in Callers : RouteContains(c)

SpecRoute == InitRoute /\ [][NextRoute]_vars

\* ------------------------------------------------------------ MerkleTree, used directly
\* As the unit tests do: collect salted hashes in a Vec, hand it to
\* MerkleTree::new (which takes the Vec over), then ask for proofs.
InitTree ==
    /\ salt \in Salts
    /\ index_size = 0 /\ prefix_size = 0
    /\ IdleStore /\ last_op = NoOp
    /\ snapshot = <<>>
    /\ leaves_of = <<>>
    /\ tree = MerkleTreeNew(<<>>, ZeroHash)
    /\ built = FALSE
    /\ proof = NoProof
    /\ IdleMT
    /\ IdleSvc

\* hashes.iter().map(|hash| hash512(*hash, SALT)), one distinct digest at a time.
TreePush(h) ==
    /\ ~built
    /\ Len(snapshot) < MaxLeaves
    /\ \A k \in 1..Len(leaves_of) : leaves_of[k] # h
    /\ snapshot' = Append(snapshot, hash512(h, salt))
    /\ leaves_of' = Append(leaves_of, h)
    /\ UNCHANGED <<cfgVars, svcVars, storeVars, mtVars, tree, built, proof>>

TreeNew ==
    /\ ~built
    /\ tree' = MerkleTreeNew(snapshot, salt)
    /\ built' = TRUE
    /\ UNCHANGED <<cfgVars, svcVars, storeVars, mtVars, snapshot, leaves_of, proof>>

TreeGet(h) ==
    /\ built
    /\ LET r == MerkleTreeGet(tree, h)
       IN  proof' = [arg |-> h, asked |-> TRUE, some |-> r.some, path |-> r.path]
    /\ UNCHANGED <<cfgVars, svcVars, storeVars, mtVars, snapshot, leaves_of, tree, built>>

NextTree ==
    \/ \E h \in TreeInputs : TreePush(h)
    \/ TreeNew
    \/ \E h \in TreeInputs : TreeGet(h)

SpecTree == InitTree /\ [][NextTree]_vars

\* ------------------------------------------------------------ the dispatcher and its workers
Shards == 0..(threads - 1)

\* MultiThreadedHashStore::new: one channel, one HashStore and one worker
\* thread per shard.
Init ==
    /\ salt \in Salts
    /\ \E cfg \in MTConfigs :
           /\ is_power_of_two(cfg.num_threads)
           /\ threads = cfg.num_threads
           /\ index_size = cfg.index_size
           /\ prefix_size = cfg.prefix_size
    /\ stores = [s \in Shards |-> HashStoreNew(index_size)]
    /\ inbox = [s \in Shards |-> <<>>]
    /\ alive = [s \in Shards |-> TRUE]
    /\ IdleCallers
    /\ IdleStore /\ last_op = NoOp
    /\ IdleTree
    /\ IdleSvc

Cmd(type, hash, tx) == [type |-> type, hash |-> hash, tx |-> tx]

\* A reply that carries no array.
ReplyWithoutArray(ok, n, arr) == [ok |-> ok, n |-> n, arr |-> <<>>, err |-> FALSE]

Reply(ok, n, arr) == [ok |-> ok, n |-> n, arr |-> arr, err |-> FALSE]

\* What response_rx.recv() returns once the command's response Sender is
\* dropped: Err(RecvError).
RecvErr == [ok |-> FALSE, n |-> 0, arr |-> <<>>, err |-> TRUE]

\* let _ = tx.send(cmd) on shard s's channel: the command joins the queue, or,
\* when the worker's Receiver is gone, send returns Err and cmd is dropped.
InboxAfterSend(s, cmd) ==
    IF alive[s] THEN [inbox EXCEPT ![s] = Send(@, cmd)] ELSE inbox

\* The response channels q after caller c's send to shard s: a dropped
\* command drops its response Sender.
ReplyAfterSend(q, s, c) ==
    IF alive[s] THEN q ELSE [q EXCEPT ![c] = Append(@, RecvErr)]

InFlightAdds == \E s \in Shards : \E k \in 1..Len(inbox[s]) : inbox[s][k].type = "AddHash"

\* An add_hash that inserts into the shard's store itself and returns the
\* store's verdict.
MTAddHashReporting(c, h) ==
    /\ pc[c] = "idle" /\ ops < MaxOps
    /\ LET thread_index == AddThreadIndex(h, threads)
           r == add_hash(stores[thread_index], salt, prefix_size, index_size, h)
       IN  /\ stores' = [stores EXCEPT ![thread_index] = r.store]
           /\ result' = [result EXCEPT ![c] =
                             [NoOp EXCEPT !.op = "add_hash", !.arg = h, !.ok = r.ret]]
    /\ sent' = [sent EXCEPT ![c][h] = @ + 1]
    /\ loc' = [k \in Callers |-> IF pc[k] = "to_array" THEN [loc[k] EXCEPT !.quiet = FALSE] ELSE loc[k]]
    /\ ops' = ops + 1
    /\ UNCHANGED <<cfgVars, svcVars, storeVars, treeVars, threads, alive, inbox, pc, reply>>

\* MultiThreadedHashStore::add_hash: send AddHash to the digest's shard and
\* return true.
MTAddHashSend(c, h) ==
    /\ pc[c] = "idle" /\ ops < MaxOps
    /\ LET thread_index == AddThreadIndex(h, threads)
       IN  /\ inbox' = InboxAfterSend(thread_index, Cmd("AddHash", h, c))
           /\ result' = [result EXCEPT ![c] =
                             [NoOp EXCEPT !.op = "add_hash", !.arg = h, !.ok = TRUE,
                                          !.failed = ~alive[thread_index]]]
    /\ sent' = [sent EXCEPT ![c][h] = @ + 1]
    /\ loc' = [k \in Callers |->
                  IF pc[k] = "to_array" THEN [loc[k] EXCEPT !.quiet = FALSE] ELSE loc[k]]
    /\ ops' = ops + 1
    /\ UNCHANGED <<cfgVars, storeVars, treeVars, threads, alive, stores, pc, reply>>

MTAddHash(c, h) == MTAddHashSend(c, h) /\ UNCHANGED svcVars

\* MultiThreadedHashStore::contains, up to the send.
MTContains(c, h) ==
    /\ pc[c] = "idle" /\ ops < MaxOps
    /\ LET thread_index == ContainsThreadIndex(h, threads)
       IN  /\ inbox' = InboxAfterSend(thread_index, Cmd("Contains", h, c))
           /\ reply' = ReplyAfterSend(reply, thread_index, c)
    /\ pc' = [pc EXCEPT ![c] = "contains"]
    /\ loc' = [loc EXCEPT ![c] = [NoLoc EXCEPT !.hash = h]]
    /\ ops' = ops + 1
    /\ UNCHANGED <<cfgVars, svcVars, storeVars, treeVars, threads, alive, stores, result, sent>>

\* MultiThreadedHashStore::contains: response_rx.recv().unwrap_or(false) and
\* return.
MTContainsReturn(c) ==
    /\ pc[c] = "contains" /\ reply[c] # <<>>
    /\ LET r == Head(reply[c])
       IN  result' = [result EXCEPT ![c] =
                         [NoOp EXCEPT !.op = "contains", !.arg = loc[c].hash,
                                      !.ok = IF r.err THEN FALSE ELSE r.ok,
                                      !.failed = r.err]]
    /\ reply' = [reply EXCEPT ![c] = Tail(@)]
    /\ pc' = [pc EXCEPT ![c] = "idle"]
    /\ loc' = [loc EXCEPT ![c] = NoLoc]
    /\ UNCHANGED <<cfgVars, svcVars, storeVars, treeVars, threads, alive, stores, inbox, sent, ops>>

FanOutCmd(kind) ==
    IF kind = "len" THEN "GetLen"
    ELSE IF kind = "occupied_slots" THEN "GetOccupiedSlots"
    ELSE "GetArray"

\* len, occupied_slots and to_array start alike: the first pass of the loop
\* over the shards, up to its send.
FanOutSend(c, kind) ==
    /\ pc[c] = "idle" /\ ops < MaxOps
    /\ inbox' = InboxAfterSend(0, Cmd(FanOutCmd(kind), ZeroHash, c))
    /\ reply' = ReplyAfterSend(reply, 0, c)
    /\ pc' = [pc EXCEPT ![c] = kind]
    /\ loc' = [loc EXCEPT ![c] = [NoLoc EXCEPT !.quiet = ~InFlightAdds]]
    /\ ops' = ops + 1
    /\ UNCHANGED <<cfgVars, storeVars, treeVars, threads, alive, stores, result, sent>>

FanOutStart(c, kind) == FanOutSend(c, kind) /\ UNCHANGED svcVars

MTLen(c) == FanOutStart(c, "len")

MTOccupiedSlots(c) == FanOutStart(c, "occupied_slots")

MTToArray(c) == FanOutStart(c, "to_array")

\* The rest of a pass of the loop: response_rx.recv(), add the reply to the
\* total (or extend all_hashes with it), then either the next pass's send or,
\* after the last shard, the return.
FanOutStep(c) ==
    /\ pc[c] \in {"len", "occupied_slots", "to_array"} /\ reply[c] # <<>>
    /\ LET r == Head(reply[c])
           total == loc[c].total + r.n
           all_hashes == loc[c].all_hashes \o r.arr
           next == loc[c].cursor + 1
           failed == loc[c].failed \/ r.err
       IN  IF next < threads
           THEN /\ inbox' = InboxAfterSend(next, Cmd(FanOutCmd(pc[c]), ZeroHash, c))
                /\ reply' = ReplyAfterSend([reply EXCEPT ![c] = Tail(@)], next, c)
                /\ loc' = [loc EXCEPT ![c] = [@ EXCEPT !.cursor = next, !.total = total,
                                                       !.all_hashes = all_hashes,
                                                       !.failed = failed]]
                /\ UNCHANGED <<pc, result>>
           ELSE /\ result' = [result EXCEPT ![c] =
                                 [NoOp EXCEPT !.op = pc[c], !.n = total, !.arr = all_hashes,
                                              !.quiet = loc[c].quiet, !.failed = failed]]
                /\ reply' = [reply EXCEPT ![c] = Tail(@)]
                /\ pc' = [pc EXCEPT ![c] = "idle"]
                /\ loc' = [loc EXCEPT ![c] = NoLoc]
                /\ UNCHANGED inbox
    /\ UNCHANGED <<cfgVars, svcVars, storeVars, treeVars, threads, alive, stores, sent, ops>>

\* rx.recv() of shard s's worker: the oldest command leaves the channel.
Recv(s) == inbox[s] # <<>> /\ inbox' = [inbox EXCEPT ![s] = Tail(@)]

\* The command's arm panics: add_hash and contains call to_index on the salted
\* hash, and to_index panics when the widths exceed the word.
Panics(cmd) ==
    /\ cmd.type \in {"AddHash", "Contains"}
    /\ to_index(hash512(cmd.hash, salt), prefix_size, index_size) = Panic

\* The callers whose response Sender is in shard s's channel or in the command
\* being handled: the worker's unwinding drops them all.
Waiting(s) == {c \in Callers : \E k \in 1..Len(inbox[s]) :
                  inbox[s][k].tx = c /\ inbox[s][k].type # "AddHash"}

\* hash_store_worker: one pass of its loop, rx.recv() and the command's arm.
\* A panic in the arm ends the thread: its store and its Receiver are dropped,
\* and with the Receiver the commands still queued.
Worker(s) ==
    /\ alive[s] /\ inbox[s] # <<>>
    /\ LET cmd == Head(inbox[s])
       IN  IF Panics(cmd)
           THEN /\ alive' = [alive EXCEPT ![s] = FALSE]
                /\ inbox' = [inbox EXCEPT ![s] = <<>>]
                /\ reply' = [c \in Callers |->
                                 IF c \in Waiting(s) THEN Append(reply[c], RecvErr)
                                 ELSE reply[c]]
                /\ UNCHANGED stores
           ELSE /\ Recv(s)
                /\ UNCHANGED alive
                /\ IF cmd.type = "AddHash"
                   THEN /\ stores' = [stores EXCEPT ![s] =
                               add_hash(@, salt, prefix_size, index_size, cmd.hash).store]
                        /\ UNCHANGED reply
                   ELSE /\ reply' = [reply EXCEPT ![cmd.tx] = Append(@,
                               IF cmd.type = "Contains"
                               THEN Reply(contains(stores[s], salt, prefix_size, index_size,
                                                   cmd.hash), 0, <<>>)
                               ELSE IF cmd.type = "GetArray"
                               THEN Reply(FALSE, 0, to_array(stores[s], index_size))
                               ELSE IF cmd.type = "GetLen"
                               THEN Reply(FALSE, len(stores[s]), <<>>)
                               ELSE Reply(FALSE, occupied_slots(stores[s]), <<>>))]
                        /\ UNCHANGED stores
    /\ UNCHANGED <<cfgVars, svcVars, storeVars, treeVars, threads, pc, loc, result, sent, ops>>

Next ==
    \/ \E c \in Callers, h \in MTInputs : MTAddHash(c, h)
    \/ \E c \in Checkers, h \in MTInputs : MTContains(c, h)
    \/ \E c \in Checkers : MTContainsReturn(c)
    \/ \E c \in Aggregators : MTLen(c)
    \/ \E c \in Aggregators : MTOccupiedSlots(c)
    \/ \E c \in Aggregators : MTToArray(c)
    \/ \E c \in Aggregators : FanOutStep(c)
    \/ \E s \in Shards : Worker(s)

Spec == Init /\ [][Next]_vars

\* Parameters a caller may hand to MultiThreadedHashStore::<I, P>::new: a valid
\* set, widths beyond the word to_index reads, and a shard count that is not a
\* power of two.
ParamConfigs == {[num_threads |-> 2, index_size |-> 1, prefix_size |-> 0],
                 [num_threads |-> 2, index_size |-> 1, prefix_size |-> WordBits],
                 [num_threads |-> 3, index_size |-> 1, prefix_size |-> 0]}

\* MultiThreadedHashStore::new and HashStore::new on those parameters: new
\* panics on a shard count that is not a power of two (threads = 0: there is no
\* dispatcher), and checks nothing else.
InitParams ==
    /\ salt \in Salts
    /\ \E cfg \in ParamConfigs :
           /\ threads = IF is_power_of_two(cfg.num_threads) THEN cfg.num_threads ELSE 0
           /\ index_size = cfg.index_size
           /\ prefix_size = cfg.prefix_size
    /\ stores = [s \in Shards |-> HashStoreNew(index_size)]
    /\ inbox = [s \in Shards |-> <<>>]
    /\ alive = [s \in Shards |-> TRUE]
    /\ IdleCallers
    /\ IdleStore /\ last_op = NoOp
    /\ IdleTree
    /\ IdleSvc

\* The operations of a dispatcher that was constructed.
Constructed == threads > 0

NextParams ==
    \/ Constructed /\ \E c \in Callers, h \in MTInputs : MTAddHash(c, h)
    \/ Constructed /\ \E c \in Checkers, h \in MTInputs : MTContains(c, h)
    \/ \E c \in Checkers : MTContainsReturn(c)
    \/ Constructed /\ \E c \in Aggregators : MTLen(c)
    \/ Constructed /\ \E c \in Aggregators : MTOccupiedSlots(c)
    \/ Constructed /\ \E c \in Aggregators : MTToArray(c)
    \/ \E c \in Aggregators : FanOutStep(c)
    \/ \E s \in Shards : Worker(s)

SpecParams == InitParams /\ [][NextParams]_vars

\* The concurrent-access test's shape: the callers post inserts while the
\* workers serve them.  MaxPosts caps the number of posts.
MaxPosts == MaxOps - 1

NextPosts ==
    \/ \E c \in Callers, h \in MTInputs : ops < MaxPosts /\ MTAddHash(c, h)
    \/ \E s \in Shards : Worker(s)

\* The largest num_threads of MTConfigs.
MaxShards == CHOOSE n \in {cfg.num_threads : cfg \in MTConfigs} :
                 \A cfg \in MTConfigs : cfg.num_threads <= n

\* Every worker thread keeps running: a command waiting in its channel is
\* received.  (Under NextPosts the steps that take the head off inbox[s] are
\* exactly the steps of Worker(s).)
SpecFair ==
    /\ Init /\ [][NextPosts]_vars
    /\ \A s \in 0..(MaxShards - 1) : WF_inbox(s \in Shards /\ Recv(s))

\* Every value stored, shard after shard.
RECURSIVE AllStoredFrom(_)
AllStoredFrom(s) ==
    IF s >= threads THEN <<>>
    ELSE to_array(stores[s], index_size) \o AllStoredFrom(s + 1)

AllStored == AllStoredFrom(0)

\* ------------------------------------------------------------ TimestampingService
\* The largest value of the wall clock.
MaxClock == 1

\* Caller c runs none of the service's calls.
AtRest(c) == pc[c] = "idle" /\ upd[c].at = "idle"

\* with_threads, as the service's tests and main build it: PREFIX_SIZE = 0 and
\* a salt drawn at random.
InitService == Init /\ prefix_size = 0 /\ threads = 2 /\ salt # ZeroHash

\* hash_store.add_hash, called on the service's store.
SvcInsert(c, h) == upd[c].at = "idle" /\ MTAddHash(c, h)

\* hash_store.len(), called on the service's store (as /stats does).
SvcLen(c) == upd[c].at = "idle" /\ MTLen(c)

\* update_merkle_tree, up to the first send of hash_store.to_array(): what it
\* does to the dispatcher and to the caller's place in the update.
UpdateEnter(c) ==
    /\ upd[c].at = "idle"
    /\ FanOutSend(c, "to_array")
    /\ upd' = [upd EXCEPT ![c] = [@ EXCEPT !.at = "to_array", !.called = TRUE]]

\* update_merkle_tree, up to the first send of hash_store.to_array().
UpdateStart(c) ==
    /\ UpdateEnter(c)
    /\ UNCHANGED <<merkle_tree, last_tree_update, clock, seen>>

\* Caller c's record after the next statement of update_merkle_tree: after
\* the assignment of the tree, after SystemTime::now(), after the assignment
\* of the timestamp.
UpdAfter(c) ==
    IF upd[c].at = "to_array"
    THEN [upd[c] EXCEPT !.at = "now", !.data = result[c].arr, !.installed = TRUE,
                        !.over = IF merkle_tree = <<>> THEN 0
                                 ELSE merkle_tree[1].leaf_count]
    ELSE IF upd[c].at = "now"
    THEN [upd[c] EXCEPT !.at = "stamp", !.now = clock]
    ELSE [upd[c] EXCEPT !.at = "idle", !.before = last_tree_update]

\* Caller c, inside update_merkle_tree with to_array returned, goes on to
\* its next statement.
Advance(c) ==
    /\ upd[c].at # "idle" /\ pc[c] = "idle"
    /\ upd' = [upd EXCEPT ![c] = UpdAfter(c)]

\* An install that reads the shards' chains again instead of using the Vec
\* to_array returned.
UpdateInstallLive(c) ==
    /\ upd[c].at = "to_array" /\ pc[c] = "idle"
    /\ merkle_tree' = <<MerkleTreeNew(AllStored, salt)>>
    /\ upd' = [upd EXCEPT ![c] = [@ EXCEPT !.at = "now", !.data = result[c].arr,
                                          !.installed = TRUE,
                                          !.over = IF merkle_tree = <<>> THEN 0
                                                   ELSE merkle_tree[1].leaf_count]]
    /\ UNCHANGED <<cfgVars, storeVars, treeVars, mtVars, last_tree_update, clock, seen>>

\* An install that publishes the tree when only its leaves are in place, the
\* levels above them not hashed yet.
UpdateInstallLeavesOnly(c) ==
    /\ upd[c].at = "to_array" /\ pc[c] = "idle"
    /\ LET t == MerkleTreeNew(result[c].arr, salt)
       IN  merkle_tree' = <<[t EXCEPT !.data = [idx \in DOMAIN t.data |->
                                 IF idx < (2 ^ t.depth) - 1 THEN ZeroHash ELSE t.data[idx]]]>>
    /\ upd' = [upd EXCEPT ![c] = [@ EXCEPT !.at = "now", !.data = result[c].arr,
                                          !.installed = TRUE,
                                          !.over = IF merkle_tree = <<>> THEN 0
                                                   ELSE merkle_tree[1].leaf_count]]
    /\ UNCHANGED <<cfgVars, storeVars, treeVars, mtVars, last_tree_update, clock, seen>>

\* update_merkle_tree: to_array has returned; MerkleTree::new, then the
\* assignment under merkle_tree.write().
UpdateInstall(c) ==
    /\ upd[c].at = "to_array" /\ pc[c] = "idle"
    /\ merkle_tree' = <<MerkleTreeNew(result[c].arr, salt)>>
    /\ Advance(c)
    /\ UNCHANGED <<cfgVars, storeVars, treeVars, mtVars, last_tree_update, clock, seen>>

\* update_merkle_tree: SystemTime::now(), the assigned value, is evaluated
\* before last_tree_update.write() is taken.
UpdateNow(c) ==
    /\ upd[c].at = "now"
    /\ Advance(c)
    /\ UNCHANGED <<cfgVars, storeVars, treeVars, mtVars, merkle_tree, last_tree_update,
                   clock, seen>>

\* update_merkle_tree: the assignment under last_tree_update.write().
UpdateStamp(c) ==
    /\ upd[c].at = "stamp"
    /\ last_tree_update' = <<upd[c].now>>
    /\ Advance(c)
    /\ UNCHANGED <<cfgVars, storeVars, treeVars, mtVars, merkle_tree, clock, seen>>

\* The wall clock moves on.
Tick ==
    /\ clock < MaxClock
    /\ clock' = clock + 1
    /\ UNCHANGED <<cfgVars, storeVars, treeVars, mtVars, merkle_tree, last_tree_update,
                   upd, seen>>

\* An update_merkle_tree has been entered and has not assigned its tree yet.
Freezing == \E f \in Callers : upd[f].at = "to_array"

\* What a read leaves in seen[c]: the call and its value; had_tree tells
\* whether the caller's read before this one returned a root or a size above 0,
\* during whether the read was made while an update was building its tree.
Saw(c, r) ==
    /\ AtRest(c)
    /\ seen' = [seen EXCEPT ![c] = [r EXCEPT !.during = Freezing]]
    /\ UNCHANGED <<cfgVars, storeVars, treeVars, mtVars, merkle_tree, last_tree_update,
                   clock, upd>>

\* get_merkle_tree_root: None without a tree, else MerkleTree::root.
get_merkle_tree_root == IF merkle_tree = <<>> THEN <<>> ELSE TreeRoot(merkle_tree[1])

\* get_merkle_tree_size: 0 without a tree, else MerkleTree::size.
get_merkle_tree_size == IF merkle_tree = <<>> THEN 0 ELSE TreeSize(merkle_tree[1])

\* get_last_update_timestamp: the seconds since the epoch, if any.
get_last_update_timestamp == last_tree_update

\* get_merkle_proof: None without a tree, else MerkleTree::get with every
\* pair turned into bytes.
get_merkle_proof(hash) ==
    LET r == IF merkle_tree = <<>> THEN [some |-> FALSE, path |-> <<>>]
             ELSE MerkleTreeGet(merkle_tree[1], hash)
    IN  [some |-> r.some,
         path |-> [k \in 1..Len(r.path) |->
                      <<to_bytes(r.path[k][1]), to_bytes(r.path[k][2])>>]]

GetRoot(c) ==
    Saw(c, [NoSeen EXCEPT !.op = "root", !.root = get_merkle_tree_root,
                          !.had_tree = get_merkle_tree_root # <<>>])

GetSize(c) ==
    Saw(c, [NoSeen EXCEPT !.op = "size", !.size = get_merkle_tree_size,
                          !.had_tree = get_merkle_tree_size > 0])

GetLastUpdate(c) ==
    Saw(c, [NoSeen EXCEPT !.op = "time", !.time = get_last_update_timestamp,
                          !.had_tree = seen[c].had_tree /\ seen[c].op \in {"root", "size"}])

GetProof(c, h) ==
    LET r == get_merkle_proof(h)
    IN  Saw(c, [NoSeen EXCEPT !.op = "proof", !.arg = h, !.some = r.some, !.path = r.path])

\* One handler inserts and reads while another rebuilds the tree.
NextService ==
    \/ \E c \in Checkers, h \in MTInputs : SvcInsert(c, h)
    \/ \E c \in Checkers : SvcLen(c)
    \/ \E c \in Aggregators : UpdateStart(c)
    \/ \E c \in Callers : FanOutStep(c)
    \/ \E c \in Aggregators : UpdateInstall(c)
    \/ \E c \in Aggregators : UpdateNow(c)
    \/ \E c \in Aggregators : UpdateStamp(c)
    \/ \E s \in Shards : Worker(s)
    \/ \E c \in Checkers : GetRoot(c)
    \/ \E c \in Checkers : GetSize(c)
    \/ \E c \in Checkers : GetLastUpdate(c)
    \/ \E c \in Checkers, h \in MTInputs : GetProof(c, h)

SpecService == InitService /\ [][NextService]_vars

\* Several handlers rebuild the tree at once while one of them also inserts
\* and the clock runs.
NextFreeze ==
    \/ \E c \in Checkers, h \in MTInputs : SvcInsert(c, h)
    \/ \E c \in Callers : UpdateStart(c)
    \/ \E c \in Callers : FanOutStep(c)
    \/ \E c \in Callers : UpdateInstall(c)
    \/ \E c \in Callers : UpdateNow(c)
    \/ \E c \in Callers : UpdateStamp(c)
    \/ \E s \in Shards : Worker(s)
    \/ Tick

SpecFreeze == InitService /\ [][NextFreeze]_vars

\* ------------------------------------------------------------ blocking calls under fair scheduling
\* response_rx.recv() of caller c returns: the oldest reply leaves the channel.
Takes(c) == reply[c] # <<>> /\ reply' = [reply EXCEPT ![c] = Tail(@)]

\* One handler inserts and calls contains, len, occupied_slots and to_array
\* while another rebuilds the tree.
NextLive ==
    \/ \E c \in Checkers, h \in MTInputs : MTAddHash(c, h)
    \/ \E c \in Checkers, h \in MTInputs : MTContains(c, h)
    \/ \E c \in Checkers : MTContainsReturn(c)
    \/ \E c \in Checkers : MTLen(c)
    \/ \E c \in Checkers : MTOccupiedSlots(c)
    \/ \E c \in Checkers : MTToArray(c)
    \/ \E c \in Aggregators : UpdateStart(c)
    \/ \E c \in Callers : FanOutStep(c)
    \/ \E c \in Aggregators : UpdateInstall(c)
    \/ \E c \in Aggregators : UpdateNow(c)
    \/ \E c \in Aggregators : UpdateStamp(c)
    \/ \E s \in Shards : Worker(s)

\* Every thread keeps running: a worker receives a command waiting in its
\* channel, a caller blocked in recv takes the reply that has arrived, and a
\* caller inside update_merkle_tree goes on to its next statement.  (Under
\* NextLive the steps that take the head off inbox[s] are the steps of
\* Worker(s), and those that take the head off reply[c] are the steps of
\* MTContainsReturn(c) and FanOutStep(c), and those that change upd[c] as
\* Advance(c) says are the steps of UpdateInstall(c), UpdateNow(c) and
\* UpdateStamp(c).)
SpecLive ==
    /\ InitService /\ [][NextLive]_vars
    /\ \A s \in 0..(MaxShards - 1) : WF_inbox(s \in Shards /\ Recv(s))
    /\ \A c \in Callers : WF_reply(Takes(c))
    /\ \A c \in Aggregators : WF_upd(Advance(c))

\* ------------------------------------------------------------ the /add and /add-batch handlers
\* Entries of a request at most.
MaxBatch == 2

\* What a request carries for a hash: base64 of 64 bytes, base64 of another
\* length, or no base64 at all.
Items == [kind : {"ok"}, hash : MTInputs]
             \cup [kind : {"bad_length", "bad_base64"}, hash : {ZeroHash}]

RECURSIVE SeqsUpTo(_, _)
SeqsUpTo(S, n) ==
    IF n = 0 THEN {<<>>}
    ELSE LET shorter == SeqsUpTo(S, n - 1)
         IN  shorter \cup {Append(q, x) : q \in {r \in shorter : Len(r) = n - 1}, x \in S}

\* payload.hashes of an AddBatchRequest
Payloads == SeqsUpTo(Items, MaxBatch) \ {<<>>}

\* Caller c is in no handler.
HandlerFree(c) == AtRest(c) /\ seen[c].op # "add_batch_loop"

\* Whether the store holds h at this moment (in the shard add_hash sends it to).
StoredNow(h) == contains(stores[AddThreadIndex(h, threads)], salt, prefix_size, index_size, h)

\* The /add handler: decode, hash_store.add_hash, the response. was_stored is
\* history: whether the digest was stored when the handler ran.
Add(c, item) ==
    /\ HandlerFree(c)
    /\ IF item.kind # "ok"
       THEN /\ seen' = [seen EXCEPT ![c] =
                            [op |-> "add", status |-> 400, success |-> FALSE,
                             is_new |-> FALSE, decoded |-> FALSE, was_stored |-> FALSE]]
            /\ UNCHANGED <<cfgVars, storeVars, treeVars, mtVars>>
       ELSE /\ MTAddHashSend(c, item.hash)
            /\ seen' = [seen EXCEPT ![c] =
                            [op |-> "add", status |-> 200, success |-> TRUE,
                             is_new |-> result'[c].ok, decoded |-> TRUE,
                             was_stored |-> StoredNow(item.hash)]]
    /\ UNCHANGED <<merkle_tree, last_tree_update, clock, upd>>

\* The /add-batch handler up to its loop.
AddBatchStart(c, hashes) ==
    /\ HandlerFree(c)
    /\ seen' = [seen EXCEPT ![c] =
                    [op |-> "add_batch_loop", hashes |-> hashes, results |-> <<>>,
                     new_hashes |-> 0, existing_hashes |-> 0,
                     decoded |-> 0, were_stored |-> 0]]
    /\ UNCHANGED <<cfgVars, storeVars, treeVars, mtVars, merkle_tree, last_tree_update,
                   clock, upd>>

\* The value /add-batch returns once its loop is through.
AddBatchResponse(r) ==
    IF r.hashes # <<>> THEN r
    ELSE [op |-> "add_batch", status |-> 200, success |-> TRUE,
          total_hashes |-> Len(r.results), new_hashes |-> r.new_hashes,
          existing_hashes |-> r.existing_hashes, results |-> r.results,
          decoded |-> r.decoded, were_stored |-> r.were_stored]

\* One pass of the loop of /add-batch, and the return after the last one.
\* decoded and were_stored are history: the entries that decoded, and those
\* of them that were stored when add_hash was called.
AddBatchStep(c) ==
    /\ seen[c].op = "add_batch_loop"
    /\ LET r == seen[c]
           item == Head(r.hashes)
       IN  IF item.kind # "ok"
           THEN /\ seen' = [seen EXCEPT ![c] = AddBatchResponse(
                        [r EXCEPT !.hashes = Tail(@),
                                  !.results = Append(@, [is_new |-> FALSE, error |-> TRUE])])]
                /\ UNCHANGED <<cfgVars, storeVars, treeVars, mtVars>>
           ELSE /\ MTAddHashSend(c, item.hash)
                /\ LET is_new == result'[c].ok
                   IN  seen' = [seen EXCEPT ![c] = AddBatchResponse(
                        [r EXCEPT !.hashes = Tail(@),
                                  !.results = Append(@, [is_new |-> is_new, error |-> FALSE]),
                                  !.new_hashes = IF is_new THEN @ + 1 ELSE @,
                                  !.existing_hashes = IF is_new THEN @ ELSE @ + 1,
                                  !.decoded = @ + 1,
                                  !.were_stored = IF StoredNow(item.hash) THEN @ + 1 ELSE @])]
    /\ UNCHANGED <<merkle_tree, last_tree_update, clock, upd>>

\* One client uses /add, another /add-batch, while the workers run.
NextApi ==
    \/ \E c \in Checkers, item \in Items : Add(c, item)
    \/ \E c \in Aggregators, hashes \in Payloads : AddBatchStart(c, hashes)
    \/ \E c \in Aggregators : AddBatchStep(c)
    \/ \E s \in Shards : Worker(s)

SpecApi == InitService /\ [][NextApi]_vars

\* ------------------------------------------------------------ the /update-tree handler
\* The places of a caller inside update_tree: in hash_store.len(), and from
\* update_merkle_tree on.
InUpdateTree(c) == seen[c].op \in {"update_tree_len", "update_tree_update"}

\* Caller c is in no handler and posts a digest.
ApiInsert(c, h) == ~InUpdateTree(c) /\ SvcInsert(c, h)

\* update_tree: let hash_count = service.hash_store.len(), up to the first
\* send of the fan-out.
UpdateTreeLen(c) ==
    /\ AtRest(c) /\ ~InUpdateTree(c)
    /\ FanOutSend(c, "len")
    /\ seen' = [seen EXCEPT ![c] = [op |-> "update_tree_len"]]
    /\ UNCHANGED <<merkle_tree, last_tree_update, clock, upd>>

\* update_tree: len() has returned, hash_count is bound, and
\* service.update_merkle_tree() is entered.
UpdateTreeUpdate(c) ==
    /\ seen[c].op = "update_tree_len" /\ pc[c] = "idle"
    /\ UpdateEnter(c)
    /\ seen' = [seen EXCEPT ![c] = [op |-> "update_tree_update", hash_count |-> result[c].n]]
    /\ UNCHANGED <<merkle_tree, last_tree_update, clock>>

\* update_tree: update_merkle_tree has returned; let tree_size =
\* service.get_merkle_tree_size(), and the response. leaves and nodes are
\* history: the leaf count and the node count of the tree this call built
\* from the Vec its to_array returned.
UpdateTreeResponse(c) ==
    /\ seen[c].op = "update_tree_update" /\ AtRest(c)
    /\ LET new_tree == MerkleTreeNew(upd[c].data, salt)
       IN  seen' = [seen EXCEPT ![c] =
                       [op |-> "update_tree", status |-> 200, success |-> TRUE,
                        tree_size |-> get_merkle_tree_size,
                        hash_count |-> seen[c].hash_count,
                        leaves |-> new_tree.leaf_count, nodes |-> TreeSize(new_tree)]]
    /\ UNCHANGED <<cfgVars, storeVars, treeVars, mtVars, merkle_tree, last_tree_update,
                   clock, upd>>

\* Clients post digests to the store while /update-tree requests are served.
NextUpdateTree ==
    \/ \E c \in Checkers, h \in MTInputs : ApiInsert(c, h)
    \/ \E c \in Callers : UpdateTreeLen(c)
    \/ \E c \in Callers : FanOutStep(c)
    \/ \E c \in Callers : UpdateTreeUpdate(c)
    \/ \E c \in Callers : UpdateInstall(c)
    \/ \E c \in Callers : UpdateNow(c)
    \/ \E c \in Callers : UpdateStamp(c)
    \/ \E c \in Callers : UpdateTreeResponse(c)
    \/ \E s \in Shards : Worker(s)

SpecUpdateTree == InitService /\ [][NextUpdateTree]_vars

\* ------------------------------------------------------------ claims on the HashStore
Salted(h) == hash512(h, salt)

\* How often value x occurs in sequence q.
Occurrences(q, x) == Cardinality({k \in 1..Len(q) : q[k] = x})

Buckets(store) == DOMAIN store.data

RECURSIVE SumLen(_, _)
SumLen(store, bs) ==
    IF bs = {} THEN 0
    ELSE LET b == CHOOSE x \in bs : TRUE
         IN  Len(store.data[b]) + SumLen(store, bs \ {b})

\* C3: contains(D) is true exactly for the digests add_hash was called with
\* before, for every digest D, in every state of the store and for every
\* contains call made; chains of several digests included.
C3_ContainsIffAdded ==
    /\ \A h \in Inputs :
           contains(hs, salt, prefix_size, index_size, h) <=> h \in added
    /\ last_op.op = "contains" => (last_op.ok <=> last_op.arg \in added)

\* A contains call answered true for a digest that is the last node of a chain
\* of three.
C3_Witness ==
    /\ last_op.op = "contains" /\ last_op.ok
    /\ \E b \in Buckets(hs) :
           /\ Len(hs.data[b]) >= 3
           /\ hs.data[b][Len(hs.data[b])] = Salted(last_op.arg)

\* C4: len() is the number of distinct digests inserted, which is the sum of
\* the chain lengths, and occupied_slots() is the number of non-empty buckets.
C4_CountersExact ==
    /\ len(hs) = Cardinality(added)
    /\ len(hs) = SumLen(hs, Buckets(hs))
    /\ occupied_slots(hs) = Cardinality({b \in Buckets(hs) : hs.data[b] # <<>>})
    /\ last_op.op = "len" => last_op.n = Cardinality(added)
    /\ last_op.op = "occupied_slots" =>
           last_op.n = Cardinality({b \in Buckets(hs) : hs.data[b] # <<>>})

\* len() returned 4 with two buckets in use, after a digest was added twice.
C4_Witness ==
    /\ last_op.op = "len" /\ last_op.n = 4
    /\ occupied_slots(hs) = 2
    /\ \E b \in Buckets(hs) : Len(hs.data[b]) >= 3

\* C6 as stated: adjacent stored values ascend under byte-wise comparison of
\* their encodings (to_bytes), first byte first.
C6_ChainsByteSorted ==
    \A b \in Buckets(hs) : \A k \in 1..(Len(hs.data[b]) - 1) :
        BytesLess(to_bytes(hs.data[b][k]), to_bytes(hs.data[b][k + 1]))

\* C6 as amended: adjacent stored values ascend strictly in the order of
\* [u64; 8], the lexicographic order over the eight words, whatever the order
\* of insertion.
C6_ChainsWordSorted ==
    \A b \in Buckets(hs) : \A k \in 1..(Len(hs.data[b]) - 1) :
        HashLess(hs.data[b][k], hs.data[b][k + 1])

\* A chain of three whose middle node was inserted last, after a front insert.
C6_Witness ==
    /\ Len(log) >= 3
    /\ \E b \in Buckets(hs) :
           /\ Len(hs.data[b]) = 3
           /\ hs.data[b][2] = Salted(log[Len(log)])
           /\ hs.data[b][1] = Salted(log[Len(log) - 1])
           /\ hs.data[b][3] = Salted(log[Len(log) - 2])

\* C7: an add_hash call with a digest the store already holds returns false and
\* leaves the chains and both counters as they were.
C7_DuplicateIsNoOp ==
    [][(last_op'.op = "add_hash" /\ last_op'.arg \in added)
         => (~last_op'.ok /\ hs' = hs /\ len(hs') = len(hs)
               /\ occupied_slots(hs') = occupied_slots(hs))]_vars

\* A duplicate add_hash was answered false for the middle node of a chain.
C7_Witness ==
    /\ last_op.op = "add_hash" /\ ~last_op.ok
    /\ \E b \in Buckets(hs) :
           /\ Len(hs.data[b]) >= 3
           /\ hs.data[b][2] = Salted(last_op.arg)

\* ------------------------------------------------------------ claims on the MerkleTree
\* What a verifier does with a proof: digest d is in the first pair, the hash
\* of every pair is in the pair after it, and the hash of the last pair is the
\* root.
Verifies(d, path, root) ==
    /\ Len(path) >= 1
    /\ d \in {path[1][1], path[1][2]}
    /\ \A k \in 1..(Len(path) - 1) :
           hash512(path[k][1], path[k][2]) \in {path[k + 1][1], path[k + 1][2]}
    /\ root = <<hash512(path[Len(path)][1], path[Len(path)][2])>>

\* C1: for every digest whose salted hash is a leaf of the tree built, at every
\* leaf position and for every leaf count from 1, get returns a proof, and the
\* proof verifies against root(): the digest is in the first pair (with the
\* salt; the pair's hash is the digest's leaf), each pair's hash is in the next
\* pair, and the last pair's hash is the root.
C1_ProofVerifies ==
    /\ built =>
           \A k \in 1..Len(leaves_of) :
               LET r == MerkleTreeGet(tree, leaves_of[k])
               IN  r.some /\ Verifies(leaves_of[k], r.path, TreeRoot(tree))
    /\ (proof.asked /\ proof.some) => Verifies(proof.arg, proof.path, TreeRoot(tree))

\* A proof was returned for the fifth of five leaves, whose sibling is a zero
\* padding leaf.
C1_Witness ==
    /\ built /\ proof.asked /\ proof.some
    /\ Len(leaves_of) = 5 /\ proof.arg = leaves_of[5]
    /\ proof.path[2] = <<hash512(proof.arg, salt), ZeroHash>>

StoredIn(s, h) == contains(stores[s], salt, prefix_size, index_size, h)

RECURSIVE SumSent(_, _)
SumSent(cs, h) ==
    IF cs = {} THEN 0
    ELSE LET c == CHOOSE x \in cs : TRUE IN sent[c][h] + SumSent(cs \ {c}, h)

\* How often h was posted through the dispatcher.
Posted(h) == SumSent(Callers, h)

Drained == \A s \in Shards : inbox[s] = <<>>

\* hash512(h, s) for the digests posted and the salts used.
SaltedInputs == [s \in Salts |-> [h \in MTInputs |-> hash512(h, s)]]

\* C5: whatever was posted through the dispatcher, every digest is stored at
\* most once in the whole store: no stored value, and no digest's salted hash,
\* occurs twice in the chains of all shards taken together (so neither twice
\* in a chain, nor in two chains of a shard, nor in two shards).
C5_StoredAtMostOnce ==
    LET all == AllStored
    IN  /\ \A i, j \in 1..Len(all) : i # j => all[i] # all[j]
        /\ \A h \in MTInputs : Occurrences(all, SaltedInputs[salt][h]) <= 1

\* A digest was posted twice, both posts are processed, it is stored once, as
\* the second node of a chain.
C5_Witness ==
    /\ Drained
    /\ \E h \in MTInputs :
           /\ Posted(h) >= 2
           /\ Occurrences(AllStored, Salted(h)) = 1
           /\ \E s \in Shards : \E b \in Buckets(stores[s]) :
                  /\ Len(stores[s].data[b]) >= 2
                  /\ stores[s].data[b][2] = Salted(h)

\* C8: a contains call for a digest the same caller posted before returns
\* true, however the worker and the other callers are scheduled.
C8_InsertThenContains ==
    \A c \in Callers :
        (result[c].op = "contains" /\ sent[c][result[c].arg] > 0) => result[c].ok

\* A caller posted a digest and asked contains for it as its next call, while
\* nobody else did anything; the answer was true.
C8_Witness ==
    \E c \in Callers :
        /\ result[c].op = "contains" /\ result[c].ok
        /\ sent[c][result[c].arg] = 1
        /\ ops = 2

\* C9: with every worker running, each digest posted (by whichever caller, in
\* whatever interleaving) is eventually stored in its shard and stays stored
\* from then on; and whenever all channels are drained every posted digest is
\* stored (so contains returns true for it).
C9_NoPostedDigestLost ==
    /\ \A h \in MTInputs :
           (Posted(h) > 0) ~> StoredIn(AddThreadIndex(h, threads), h)
    /\ [][\A h \in MTInputs :
             StoredIn(AddThreadIndex(h, threads), h)
                 => StoredIn(AddThreadIndex(h, threads), h)']_vars
    /\ [](Drained => \A h \in MTInputs :
              Posted(h) > 0 => StoredIn(AddThreadIndex(h, threads), h))

\* Both callers posted, to two different shards; everything is processed and
\* stored.
C9_Witness ==
    /\ Drained
    /\ \A c \in Callers : \E h \in MTInputs : sent[c][h] > 0
    /\ \E g, h \in MTInputs :
           /\ AddThreadIndex(g, threads) # AddThreadIndex(h, threads)
           /\ Posted(g) > 0 /\ Posted(h) > 0
           /\ StoredIn(AddThreadIndex(g, threads), g)
           /\ StoredIn(AddThreadIndex(h, threads), h)

Sorted(arr) == \A k \in 1..(Len(arr) - 1) : HashLess(arr[k], arr[k + 1])

\* C10: with PREFIX_SIZE = 0 and a power-of-two number of shards, a to_array
\* of the dispatcher during which no insert was in flight returns a sequence
\* that ascends (in the order the chains are kept in).
C10_SnapshotGloballySorted ==
    \A c \in Callers :
        (result[c].op = "to_array" /\ result[c].quiet /\ prefix_size = 0
           /\ is_power_of_two(threads))
        => Sorted(result[c].arr)

\* ------------------------------------------------------------ claims on the service
\* The step is the assignment of a new tree by some update_merkle_tree.
Installing == \E c \in Callers : upd[c].at = "to_array" /\ upd'[c].at = "now"

\* The leaves of tree t are exactly the values of data, in order.
LeavesAre(t, data) ==
    /\ t.leaf_count = Len(data)
    /\ \A i \in 1..Len(data) : t.data[(2 ^ t.depth) - 1 + (i - 1)] = data[i]

\* C11: between two installs nothing changes what the service publishes:
\* whatever inserts and worker steps happen, the tree slot, which is all that
\* get_merkle_tree_root, get_merkle_tree_size and get_merkle_proof read, stays
\* as it is; and the published tree holds exactly the snapshot that the update
\* which installed it took.
C11_InsertsLeaveTreeAlone ==
    /\ [][~Installing => merkle_tree' = merkle_tree]_vars
    /\ [](merkle_tree # <<>> =>
             \A c \in Aggregators : LeavesAre(merkle_tree[1], upd[c].data))

\* A tree of one leaf is published, nobody is rebuilding it, and the store
\* has taken in another digest since.
C11_Witness ==
    /\ merkle_tree # <<>> /\ merkle_tree[1].leaf_count = 1
    /\ \A c \in Callers : upd[c].at = "idle"
    /\ Drained /\ Len(AllStored) = 2

\* C12: a caller that reads the tree (its root or its size), finds one, and
\* reads the timestamp next never finds the timestamp missing.
C12_TreeNeverWithoutTimestamp ==
    \A c \in Callers :
        (seen[c].op = "time" /\ seen[c].had_tree) => seen[c].time # <<>>

\* C13: the installs happen as if the updates ran one after another: since the
\* store only grows, no install replaces a tree by one built from a snapshot
\* that is older, that is, by one of fewer leaves.
C13_NoOlderTreeInstalledOver ==
    \A c \in Callers : upd[c].at \in {"now", "stamp", "idle"} => upd[c].over <= Len(upd[c].data)

\* C14: with a clock that never goes back, no update replaces the timestamp by
\* a smaller one.
C14_TimestampNeverDecreases ==
    \A c \in Callers :
        (upd[c].at = "idle" /\ upd[c].before # <<>>) => upd[c].before[1] <= upd[c].now

\* The digest's salted hash is among the values the published tree was built
\* from.
IsLeaf(h) ==
    /\ merkle_tree # <<>>
    /\ \E c \in Aggregators : Occurrences(upd[c].data, SaltedInputs[salt][h]) > 0

\* C15: get_merkle_proof returns None for every digest that is not a leaf of
\* the published tree: while there is no tree, while the tree is empty, for a
\* digest never posted, and for a digest stored only after the tree was built.
C15_NoProofUnlessLeaf ==
    \A h \in MTInputs :
        LET r == get_merkle_proof(h)
        IN  /\ ~IsLeaf(h) => ~r.some
            /\ merkle_tree = <<>> => ~r.some
            /\ (merkle_tree # <<>> /\ merkle_tree[1].leaf_count = 0) => ~r.some
            /\ Posted(h) = 0 => ~r.some

\* A tree of one leaf is published; a digest stored since (contains finds it
\* in its shard) was asked for, and the answer was None.
C15_Witness ==
    \E c \in Callers :
        /\ seen[c].op = "proof" /\ ~seen[c].some
        /\ merkle_tree # <<>> /\ merkle_tree[1].leaf_count = 1
        /\ StoredIn(AddThreadIndex(seen[c].arg, threads), seen[c].arg)
        /\ ~IsLeaf(seen[c].arg)
        /\ \A k \in Callers : upd[k].at = "idle"

\* C16: nothing the service's reads return has the salt as a component: not
\* the root, and neither half of any pair of a proof.
C16_SaltNeverReturned ==
    \A c \in Callers :
        /\ seen[c].op = "root" => seen[c].root # <<salt>>
        /\ seen[c].op = "proof" =>
               \A k \in 1..Len(seen[c].path) :
                   /\ seen[c].path[k][1] # to_bytes(salt)
                   /\ seen[c].path[k][2] # to_bytes(salt)

\* ------------------------------------------------------------ worker death and parameters
\* C17: a dispatcher operation that met a shard whose worker has terminated
\* never returns a normal result: no call that found the shard's channel
\* closed, on its send or on its recv, comes back with a value.
C17_DeadShardNeverAnswersNormally ==
    \A c \in Callers : result[c].op # "none" => ~result[c].failed

\* C18: after a construction that succeeded, no Insert or Contains fails
\* because of the parameters: no worker panics in to_index.
C18_NoFailureAfterConstruction ==
    Constructed => \A s \in Shards : alive[s]

\* ------------------------------------------------------------ the layout of the tree
\* C19: the tree built from a snapshot of N >= 1 leaves has depth d, the least
\* d with 2^d >= N, and exactly 2^(d+1) - 1 nodes, indexed 0 .. 2^(d+1) - 2;
\* the leaves stand in snapshot order at 2^d - 1 .. 2^d - 2 + N; the other
\* 2^d - N slots of the leaf level hold the zero digest; and for N = 1 the
\* tree is the one leaf, which is its root.
C19_TreeLayout ==
    (built /\ Len(snapshot) >= 1) =>
        LET N == Len(snapshot)
            d == tree.depth
            leaf_start == (2 ^ d) - 1
        IN  /\ 2 ^ d >= N /\ (d = 0 \/ 2 ^ (d - 1) < N)
            /\ DOMAIN tree.data = 0..((2 ^ (d + 1)) - 2)
            /\ TreeSize(tree) = (2 ^ (d + 1)) - 1
            /\ \A i \in 1..N : tree.data[leaf_start + (i - 1)] = snapshot[i]
            /\ \A idx \in (leaf_start + N)..((2 ^ (d + 1)) - 2) : tree.data[idx] = ZeroHash
            /\ N = 1 => (TreeSize(tree) = 1 /\ TreeRoot(tree) = <<snapshot[1]>>)

\* A tree of three leaves was built: seven nodes, the last one padding.
C19_Witness ==
    /\ built /\ Len(snapshot) = 3
    /\ TreeSize(tree) = 7
    /\ tree.data[5] = snapshot[3]
    /\ tree.data[6] = ZeroHash

\* ------------------------------------------------------------ the service before and at its first freeze
\* update_merkle_tree was never called.
NeverFrozen == \A c \in Callers : ~upd[c].called

\* add_hash was never called.
NothingInserted == \A h \in MTInputs : Posted(h) = 0

\* A call of update_merkle_tree has assigned its tree.
Installed(c) == upd[c].called /\ upd[c].at \in {"now", "stamp", "idle"}

\* C20: while update_merkle_tree was never called, the root is none, the size
\* is 0 and the last update is none, for the service and for every read a
\* handler made; while nothing was inserted, len returns 0; and once an
\* update over the empty store has assigned its tree, the service holds the
\* empty tree, whose root is still none and whose size is 0.
C20_FreshAndEmpty ==
    /\ NeverFrozen =>
           /\ get_merkle_tree_root = <<>>
           /\ get_merkle_tree_size = 0
           /\ get_last_update_timestamp = <<>>
           /\ \A c \in Callers :
                  /\ seen[c].op = "root" => seen[c].root = <<>>
                  /\ seen[c].op = "size" => seen[c].size = 0
                  /\ seen[c].op = "time" => seen[c].time = <<>>
    /\ NothingInserted =>
           /\ \A c \in Callers : result[c].op = "len" => result[c].n = 0
           /\ (\E c \in Callers : Installed(c)) =>
                  /\ merkle_tree = <<MerkleTreeNew(<<>>, salt)>>
                  /\ merkle_tree[1].data = <<>> /\ merkle_tree[1].leaf_count = 0
                  /\ get_merkle_tree_root = <<>>
                  /\ get_merkle_tree_size = 0
                  /\ \A c \in Callers :
                         /\ seen[c].op = "root" => seen[c].root = <<>>
                         /\ seen[c].op = "size" => seen[c].size = 0

\* An update over the empty store has completed, and a handler has then read
\* the root of the empty tree it installed.
C20_Witness ==
    /\ NothingInserted
    /\ \E c \in Aggregators : Installed(c) /\ upd[c].at = "idle"
    /\ merkle_tree # <<>> /\ last_tree_update # <<>>
    /\ \E c \in Checkers : seen[c].op = "root" /\ seen[c].root = <<>>

\* ------------------------------------------------------------ what add_hash of the dispatcher returns
\* The step is a call of MultiThreadedHashStore::add_hash.
Posting == sent' # sent

\* C21: add_hash of the dispatcher only posts: the step in which it is called
\* and returns appends the AddHash message to its shard's channel, changes no
\* store, waits for no reply and leaves the caller free; and the value it
\* returns is true, whether the digest is new or stored already.
C21_InsertFireAndForget ==
    /\ [][Posting =>
             /\ stores' = stores /\ reply' = reply /\ pc' = pc
             /\ \A c \in Callers : sent'[c] # sent[c] =>
                    /\ result'[c].op = "add_hash" /\ result'[c].ok
                    /\ \E s \in Shards :
                           inbox'[s] = Append(inbox[s],
                                              Cmd("AddHash", result'[c].arg, c))]_vars
    /\ [](\A c \in Callers : result[c].op = "add_hash" => result[c].ok)

\* A caller posted a digest that was stored already and got true, and the
\* message it posted is still in the channel.
C21_Witness ==
    \E c \in Callers :
        /\ result[c].op = "add_hash" /\ result[c].ok
        /\ LET h == result[c].arg
               s == AddThreadIndex(h, threads)
           IN  /\ Posted(h) = 2
               /\ StoredIn(s, h)
               /\ inbox[s] = <<Cmd("AddHash", h, c)>>

\* ------------------------------------------------------------ what /add and /add-batch report
\* C22: the responses tell new from existing: /add answers is_new = false for
\* a digest that was stored when it was submitted and is_new = true for one
\* that was not; /add-batch counts in existing_hashes the entries that were
\* stored when submitted and in new_hashes the others, and the two counts add
\* up to the number of entries that decoded.
C22_ResponsesTellNewFromExisting ==
    \A c \in Callers :
        /\ (seen[c].op = "add" /\ seen[c].decoded) => seen[c].is_new = ~seen[c].was_stored
        /\ seen[c].op = "add_batch" =>
               /\ seen[c].existing_hashes = seen[c].were_stored
               /\ seen[c].new_hashes = seen[c].decoded - seen[c].were_stored
               /\ seen[c].new_hashes + seen[c].existing_hashes = seen[c].decoded

\* ------------------------------------------------------------ the bits to_index takes
\* Bit j of byte b, counted from its most significant bit.
BitOfByte(b, j) == (b \div (2 ^ (ByteBits - 1 - j))) % 2

\* Bit k of the digest's first word, counted from the word's most significant
\* bit, read from the digest's bytes: the word's most significant byte is the
\* last of its bytes.
DigestBit(h, k) == BitOfByte(to_bytes(h)[BytesPerWord - (k \div ByteBits)], k % ByteBits)

\* The bits p .. p+i-1 as a number whose most significant bit is the first.
RECURSIVE FirstBitMost(_, _, _)
FirstBitMost(h, p, i) ==
    IF i = 0 THEN 0
    ELSE DigestBit(h, p) * (2 ^ (i - 1)) + FirstBitMost(h, p + 1, i - 1)

\* The bits p .. p+i-1 as a number whose least significant bit is the first.
RECURSIVE FirstBitLeast(_, _, _)
FirstBitLeast(h, p, i) ==
    IF i = 0 THEN 0
    ELSE DigestBit(h, p) + 2 * FirstBitLeast(h, p + 1, i - 1)

\* to_index was called with widths that fit the word.
IndexReturned == last_op.op = "to_index" /\ prefix_size + index_size <= WordBits

hash512_3(a, b, c) == hash512(hash512(a, b), c)

\* The heap indices of the internal nodes of tree t.
Internal(t) == 0..((2 ^ t.depth) - 2)

\* A tree of two leaves or more was built.
BuiltOfTwo == built /\ Len(snapshot) >= 2

\* C25 as stated: each internal node is the hash of the salt followed by its
\* left child and its right child.
C25_InternalNodesSalted ==
    BuiltOfTwo =>
        \A k \in Internal(tree) :
            tree.data[k] = hash512_3(tree.salt, tree.data[2 * k + 1], tree.data[2 * k + 2])

\* C25: in a built tree of two leaves or more, each internal node at heap
\* index k is the hash of its left child node[2k+1] followed by its right
\* child node[2k+2], and of nothing else: the salt is not part of it, so the
\* nodes are the same whatever salt the tree is given; the root is node 0.
C25_InternalNodesUnsalted ==
    BuiltOfTwo =>
        /\ \A k \in Internal(tree) :
               tree.data[k] = hash512(tree.data[2 * k + 1], tree.data[2 * k + 2])
        /\ \A s \in Salts : MerkleTreeNew(snapshot, s).data = tree.data
        /\ tree.salt = salt
        /\ TreeRoot(tree) = <<tree.data[0]>>

\* A tree of three leaves under a non-zero salt: its root hashes two internal
\* nodes, one of them over a padding leaf, and is not the salted hash of them.
C25_Witness ==
    /\ built /\ Len(snapshot) = 3 /\ salt # ZeroHash
    /\ tree.data[2] = hash512(snapshot[3], ZeroHash)
    /\ tree.data[0] = hash512(tree.data[1], tree.data[2])
    /\ tree.data[0] # hash512_3(salt, tree.data[1], tree.data[2])

\* ------------------------------------------------------------ the order of a shard's to_array
\* C26: for a store with PREFIX_SIZE = 0, to_array returns every stored value
\* (the salted hash of every digest added) exactly once, and the values
\* ascend strictly in the order the chains are kept in, whatever the order
\* the digests were added in.
C26_ShardSnapshotSorted ==
    (last_op.op = "to_array" /\ prefix_size = 0) =>
        LET arr == last_op.arr
        IN  /\ Sorted(arr)
            /\ Len(arr) = Cardinality(added)
            /\ \A h \in added : Occurrences(arr, Salted(h)) = 1
            /\ \A k \in 1..Len(arr) : \E h \in added : arr[k] = Salted(h)

\* to_array returned three values or more from two buckets or more, one of
\* them holding a chain, and the digest added first is not the first value.
C26_Witness ==
    /\ last_op.op = "to_array" /\ prefix_size = 0
    /\ Len(last_op.arr) >= 3
    /\ \E b, d \in Buckets(hs) : b # d /\ Len(hs.data[b]) >= 2 /\ Len(hs.data[d]) >= 1
    /\ last_op.arr[1] # Salted(log[1])

\* ------------------------------------------------------------ the shard of a digest
\* C27: for every digest and every power-of-two shard count S = 2^k (S = 1
\* included), the thread_index of add_hash and of contains lies in 0 .. S-1
\* and is the number the leading k bits of the digest's first word spell, so
\* it depends on nothing else; add_hash and contains compute the same index
\* for the same digest; and every index in 0 .. S-1 is the index of some
\* digest.
C27_OneShardPerDigest ==
    LET k == CHOOSE j \in 0..WordBits : 2 ^ j = threads
    IN  /\ \A c \in Callers : result[c].op # "none" =>
               /\ result[c].n \in 0..(threads - 1)
               /\ result[c].n = result[c].arg[1] \div (2 ^ (WordBits - k))
               /\ result[c].n = FirstBitMost(result[c].arg, 0, k)
        /\ \A c, d \in Callers :
               (result[c].op = "add_hash" /\ result[d].op = "contains")
                   => result[c].n = result[d].n
        /\ (\E c \in Callers : result[c].op # "none") =>
               \A s \in 0..(threads - 1) :
                   LET h == Mk(s * (2 ^ (WordBits - k)), 0)
                   IN  /\ h \in IndexInputs
                       /\ AddThreadIndex(h, threads) = s
                       /\ ContainsThreadIndex(h, threads) = s

\* With four shards, add_hash and contains both computed shard 2 for a digest
\* whose first word has more bits set below the two leading ones.
C27_Witness ==
    /\ threads = 4
    /\ \E c, d \in Callers :
           /\ result[c].op = "add_hash" /\ result[d].op = "contains"
           /\ result[c].n = 2 /\ result[d].n = 2
           /\ result[c].arg[1] % (2 ^ (WordBits - 2)) # 0

\* ------------------------------------------------------------ to_array of the dispatcher while inserts run
\* The step is shard s's worker handling a GetArray message.
ServesGetArray(s) ==
    /\ inbox[s] # <<>> /\ Head(inbox[s]).type = "GetArray"
    /\ inbox'[s] = Tail(inbox[s])

\* The step is caller c's recv of a shard's array in to_array.
TakesArray(c) ==
    /\ pc[c] = "to_array" /\ reply[c] # <<>>
    /\ (pc'[c] = "idle" \/ loc'[c].cursor # loc[c].cursor)

\* C28: a to_array of the dispatcher is assembled shard by shard: the array
\* a shard's worker sends holds exactly what the shard's store holds at the
\* step in which the worker handles the GetArray message (every value stored
\* there once, nothing else), whatever was posted before or is posted after;
\* and the caller appends the arrays in the order it receives them.
C28_SnapshotShardByShard ==
    /\ [][\A s \in Shards : ServesGetArray(s) =>
             LET c == Head(inbox[s]).tx
                 arr == reply'[c][Len(reply'[c])].arr
             IN  /\ Len(reply'[c]) = Len(reply[c]) + 1
                 /\ Len(arr) = len(stores[s])
                 /\ \A h \in MTInputs :
                        Occurrences(arr, SaltedInputs[salt][h])
                            = IF StoredIn(s, h) THEN 1 ELSE 0
                 /\ stores' = stores]_vars
    /\ [][\A c \in Callers : TakesArray(c) =>
             (IF pc'[c] = "idle" THEN result'[c].arr ELSE loc'[c].all_hashes)
                 = loc[c].all_hashes \o Head(reply[c]).arr]_vars

\* One caller posted X and then Y, to two different shards, each once, and a
\* to_array of another caller has returned Y but not X.
C28_Witness ==
    \E c, d \in Callers : \E X, Y \in MTInputs :
        /\ AddThreadIndex(X, threads) # AddThreadIndex(Y, threads)
        /\ sent[c][X] = 1 /\ sent[c][Y] = 1
        /\ result[c].op = "add_hash" /\ result[c].arg = Y
        /\ result[d].op = "to_array"
        /\ Occurrences(result[d].arr, SaltedInputs[salt][Y]) = 1
        /\ Occurrences(result[d].arr, SaltedInputs[salt][X]) = 0

\* ------------------------------------------------------------ reads during an update of the tree
\* The tree the last completed assignment published: the tree of the Vec
\* that update got from to_array, or none.
Published ==
    LET f == CHOOSE a \in Aggregators : TRUE
    IN  IF upd[f].installed THEN <<MerkleTreeNew(upd[f].data, salt)>> ELSE <<>>

\* The step is a read by caller c.
Reads(c) == seen'[c] # seen[c]

\* C29: the service always holds a complete tree, built by MerkleTree::new
\* from one to_array result (or none); while an update is collecting and
\* building, the tree held stays the one published before; and every root,
\* size and proof read returns what the tree held at its step (by the first
\* part, the published one) gives, during an update as outside it.
C29_ReadsSeeOneCompleteTree ==
    /\ [](merkle_tree = Published)
    /\ [][~Installing => merkle_tree' = merkle_tree]_vars
    /\ [][\A c \in Callers : Reads(c) =>
             LET r == seen'[c]
             IN  /\ r.op = "root" => r.root = get_merkle_tree_root
                 /\ r.op = "size" => r.size = get_merkle_tree_size
                 /\ r.op = "proof" =>
                        [some |-> r.some, path |-> r.path] = get_merkle_proof(r.arg)]_vars

\* An update over the empty store had published the empty tree; a second
\* update has collected a digest stored since and has not assigned its tree
\* yet; a read made meanwhile returned the size of the empty tree.
C29_Witness ==
    /\ merkle_tree # <<>> /\ merkle_tree[1].leaf_count = 0
    /\ \E f \in Aggregators :
           /\ upd[f].at = "to_array" /\ pc[f] = "idle"
           /\ Len(result[f].arr) = 1
    /\ \E c \in Checkers :
           seen[c].op = "size" /\ seen[c].during /\ seen[c].size = 0

\* ------------------------------------------------------------ blocking calls return
\* The calls of the dispatcher that wait for replies.
Blocking == {"contains", "len", "occupied_slots", "to_array"}

\* C30: with every thread running, each contains, len, occupied_slots and
\* to_array of the dispatcher that has been started returns, with every reply
\* it waited for received, and each update_merkle_tree that has been started
\* completes; and a caller that waits always has a reply at hand or its
\* command in the channel of a running worker, so no state is stuck.
C30_BlockingCallsReturn ==
    /\ \A c \in Callers : \A kind \in Blocking :
           (pc[c] = kind) ~>
               (pc[c] = "idle" /\ result[c].op = kind /\ ~result[c].failed
                  /\ reply[c] = <<>>)
    /\ \A c \in Aggregators :
           (upd[c].at # "idle") ~> (upd[c].at = "idle" /\ upd[c].installed)
    /\ [](\A c \in Callers : pc[c] # "idle" =>
              \/ reply[c] # <<>>
              \/ \E s \in Shards : alive[s] /\ \E k \in 1..Len(inbox[s]) :
                     inbox[s][k].tx = c /\ inbox[s][k].type # "AddHash")

\* An update has completed over a digest a handler had posted, and that
\* handler's to_array has returned the digest too.
C30_Witness ==
    /\ \E c \in Aggregators :
           upd[c].at = "idle" /\ upd[c].installed /\ Len(upd[c].data) = 1
    /\ \E c \in Checkers :
           pc[c] = "idle" /\ result[c].op = "to_array" /\ Len(result[c].arr) = 1

\* ------------------------------------------------------------ what /update-tree reports
\* C31: the response of /update-tree describes the tree this very call
\* installed: hash_count is the number of leaves of the tree the call built
\* and tree_size is that tree's node count, whatever inserts and other
\* /update-tree calls run beside it.
C31_ResponseDescribesInstalledTree ==
    \A c \in Callers :
        seen[c].op = "update_tree" =>
            /\ seen[c].hash_count = seen[c].leaves
            /\ seen[c].tree_size = seen[c].nodes

====
